---- MODULE Spec2Model ----
(***************************************************************************)
(* Accounts, sessions, rate limiting and the background worker of the     *)
(* marketplace API (src/api/app/deps.py, routes/auth.py, routes/users.py, *)
(* routes/admin.py, core/redis.py, worker.py, services/fcm.py,            *)
(* services/email.py).                                                     *)
(*                                                                         *)
(* Every HTTP request runs in its own database session (get_db) against   *)
(* PostgreSQL at its default isolation level, READ COMMITTED.  A handler  *)
(* is a sequence of awaited statements; other requests may run between    *)
(* any two of them.  The model has one action per awaited statement,      *)
(* together with the Python code that runs before the next await.  A      *)
(* db.commit() that first flushes pending rows is one statement: the rows *)
(* of the flush are invisible to other sessions until the COMMIT.         *)
(*                                                                         *)
(* The database is the one the Alembic migration builds                   *)
(* (alembic/versions/0001_initial_migration.py): init_db runs create_all  *)
(* only if settings has DB_AUTO_CREATE, and Settings (config.py) has no   *)
(* such field.  users.id is a serial column, users.email and              *)
(* users.google_sub have unique indexes, device_tokens.fcm_token has a    *)
(* unique constraint.  All tables are empty when the program starts.      *)
(*                                                                         *)
(* Routes receive what their dependencies yield.  Depends(get_current_user)*)
(* yields the user row.  Depends(require_admin), Depends(require_moderator),*)
(* Depends(require_customer) and Depends(require_freelancer) name the     *)
(* zero-argument factories of deps.py, so FastAPI calls the factory and   *)
(* injects its result, the function checker: no token is read, and        *)
(* current_user has no attribute id or email.  get_current_user declares  *)
(* the parameter request after two defaulted parameters; the model reads  *)
(* it with the default None that the tests rely on                        *)
(* (get_current_user(test_db, creds)): the token is the Bearer            *)
(* credential, else the cookie access_token of the request.               *)
(*                                                                         *)
(* No code inserts a row into projects, proposals, contracts, milestones   *)
(* or transactions.  create_project reads current_user.id of the injected *)
(* function before its INSERT (projects.py:42); create_proposal loads the *)
(* project first and finds none (proposals.py:36-40); contracts.py and    *)
(* milestones.py have only routes that touch no table; and                *)
(* scripts/seed_data.py stops at ProjectComplexity.intermediate, which    *)
(* the enumeration lacks, before it adds a project.  These tables stay    *)
(* empty: get_project finds no project and never reaches the INCR of      *)
(* project:{id}:views, and the worker's flush_project_view_counts finds   *)
(* no such key and returns (worker.py:117-119).  The model therefore has  *)
(* the tables users, user_profiles and device_tokens and the Redis keys   *)
(* refresh_token:{id}, rate_limit:{ip}, notification_queue and            *)
(* email_queue.  (models/project.py uses mapped_column without importing  *)
(* it; the model assumes the import, without which no module of the       *)
(* application loads.)                                                     *)
(*                                                                         *)
(* Specifications:                                                         *)
(*   SpecRegister   register, google_auth and update_user on an empty     *)
(*                  table users                                           *)
(*   SpecAuth       get_current_user, google_auth and the routes that     *)
(*                  load a user by id (update_user, delete_user,          *)
(*                  suspend_user), with one registered user               *)
(*   SpecSessions   login, google_auth, refresh_token, logout with the    *)
(*                  refresh tokens kept in Redis, beside update_user      *)
(*   SpecRateLimit  rate_limit_check (deps.py, core/redis.py) of login    *)
(*                  requests, on a key that earlier requests have counted *)
(*   SpecWorker     the worker's notification and email queues beside     *)
(*                  register_device_token                                 *)
(***************************************************************************)
EXTENDS Integers, Sequences, FiniteSets

\* ---------------------------------------------------------------- bounds
MaxCalls == 3              \* requests started in one behaviour
MaxTime == 1               \* seconds the clock may advance
MaxQueue == 2              \* jobs a queue holds at the start
MaxUserId == 4             \* values the sequence users_id_seq hands out

\* ------------------------------------------------------ program constants
Limit == 100                           \* default of rate_limit_check's limit
Window == 60                           \* default of rate_limit_check's window
JWT_ACCESS_TOKEN_EXPIRE_MINUTES == 30  \* settings
JWT_REFRESH_TOKEN_EXPIRE_DAYS == 30    \* settings

\* ----------------------------------------------------------------- inputs
Slots == {1, 2}                     \* two requests may be in flight at once

\* ids a request may name: ids of users.id up to the bound and 12, an id
\* that has no row
UserIds == 1..MaxUserId
KeyIds == UserIds \cup {12}

\* an absent value: Python's None, SQL's NULL, a field a body leaves out
NULL == "null"
UNSET == "unset"

\* the emails the request schemas hand to the handlers
Emails == {"a@example.com", "b@example.com"}

\* the sub claims of Google id tokens
GoogleSubs == {"g1", "g2"}

\* what id_token.verify_oauth2_token yields for the token of a request:
\* ValueError, or the claims sub and email (email may be missing)
GoogleTokens ==
    {[error |-> TRUE, sub |-> NULL, email |-> NULL]}
    \cup {[error |-> FALSE, sub |-> g, email |-> e] :
            g \in GoogleSubs, e \in Emails \cup {NULL}}

\* fcm_token values of the bodies of register_device_token
FcmTokens == {1, 2}

\* a request without a token
NoToken == [signature |-> "none", claims |-> "none", exp |-> 0, type |-> "none",
            has_sub |-> FALSE, sub |-> << >>]

\* a session that has loaded no row of users
NoAccount == [id |-> 0, email |-> NULL, has_password |-> FALSE,
              google_sub |-> NULL, is_active |-> FALSE]

\* the body of a request
NoData == [email |-> NULL, has_password |-> FALSE, has_google_sub |-> FALSE,
           google_sub |-> NULL, is_active |-> UNSET, null_column |-> FALSE,
           password_ok |-> FALSE, fcm_token |-> 0]

\* limit and window are the query parameters of rate_limit_check, kept
\* while the dependency runs
Idle == [op |-> "none", pc |-> "idle", user |-> 0, target |-> 0,
         data |-> NoData, account |-> NoAccount, existing |-> FALSE,
         token |-> NoToken, issued |-> NoToken, limit |-> 0, window |-> 0]

NoResponse == [op |-> "none", resp |-> "none", target |-> 0]

\* Redis without keys: refresh_token:{id}, rate_limit:{ip} of one client
\* (count 0: no key; ttl: the key expires), and the two job lists
NoKeys == [refresh_token |-> [k \in KeyIds |-> NoToken],
           rate_limit |-> [count |-> 0, ttl |-> FALSE],
           email_queue |-> << >>,
           notification_queue |-> << >>]

\* a job of a queue: whether json.loads and the lookups of its keys succeed,
\* the user or recipient it names, and the device token it carries (0: none)
NoJob == [valid |-> FALSE, user_id |-> 0, token |-> 0]

\* the worker asleep between two rounds of process_jobs
Asleep == [pc |-> "sleep", job |-> NoJob, device_tokens |-> {}]

VARIABLES
    users,          \* table users: id -> row, the committed rows
    users_id_seq,   \* the last value of the sequence of users.id
    user_profiles,  \* table user_profiles: the user_id of its rows
    device_tokens,  \* table device_tokens: fcm_token -> row
    redis,          \* the Redis keys the program uses
    worker,         \* the background worker: its position and local variables
    now,            \* the clock, in seconds
    req,            \* the request each slot is executing
    last,           \* the response most recently sent
    calls           \* requests started so far

vars == <<users, users_id_seq, user_profiles, device_tokens, redis, worker,
          now, req, last, calls>>

\* ------------------------------------------------------------- helpers
\* a new request takes the first free slot
CanStart(s) ==
    /\ req[s].pc = "idle"
    /\ \A t \in Slots : t < s => req[t].pc # "idle"
    /\ calls < MaxCalls

\* the handler raised, or returned: the session is closed, and what it had
\* not committed is rolled back
Respond(s, op, t, r) ==
    /\ req' = [req EXCEPT ![s] = Idle]
    /\ last' = [op |-> op, resp |-> r, target |-> t]

\* the handler awaits its next statement
Continue(s, r) ==
    /\ req' = [req EXCEPT ![s] = r]
    /\ last' = last

\* the unit of work: an assigned attribute is written iff it differs from
\* the loaded value
Flush(loaded, assigned, current) == IF assigned = loaded THEN current ELSE assigned

\* the rows of users with the given email, with the given google_sub
UsersWithEmail(email) == {k \in DOMAIN users : users[k].email = email}
UsersWithGoogleSub(g) == {k \in DOMAIN users : users[k].google_sub = g}

\* rows another session has inserted and not yet committed: they hold their
\* entries of the unique indexes
Pending(s) == {req[t].account : t \in {t \in Slots : t # s /\ req[t].pc = "commit_new"}}

\* an INSERT into users waits while an uncommitted row holds its email or
\* its google_sub
Blocked(s, email, g) ==
    \E row \in Pending(s) : row.email = email \/ (g # NULL /\ row.google_sub = g)

\* ix_users_email, ix_users_google_sub: the committed rows that refuse a
\* row with this email and google_sub (NULLs do not collide)
Duplicate(email, g) ==
    UsersWithEmail(email) # {} \/ (g # NULL /\ UsersWithGoogleSub(g) # {})

\* the row of users with id k, as a session loads it
Loaded(k) == [id |-> k, email |-> users[k].email,
              has_password |-> users[k].has_password,
              google_sub |-> users[k].google_sub,
              is_active |-> users[k].is_active]

\* INSERT INTO users: the row is stored under the id the sequence handed out
Insert(id, row) ==
    [k \in DOMAIN users \cup {id} |-> IF k = id THEN row ELSE users[k]]

\* =========================================================== strings
\* A string is the sequence of its code points.
\* The code points of the decimal digit zero of every script (general
\* category Nd, Unicode 14.0, the table of CPython 3.11): the digits 0..9
\* of a script are the ten code points from its zero.
DigitZeros ==
    {48, 1632, 1776, 1984, 2406, 2534, 2662, 2790, 2918, 3046, 3174, 3302,
     3430, 3558, 3664, 3792, 3872, 4160, 4240, 6112, 6160, 6470, 6608,
     6784, 6800, 6992, 7088, 7232, 7248, 42528, 43216, 43264, 43472, 43504,
     43600, 44016, 65296, 66720, 68912, 69734, 69872, 69942, 70096, 70384,
     70736, 70864, 71248, 71360, 71472, 71904, 72016, 72784, 73040, 73120,
     92768, 92864, 93008, 120782, 120792, 120802, 120812, 120822, 123200,
     123632, 125264, 130032}

\* the characters int() strips from both ends of its argument: the six of
\* ASCII (tab, LF, VT, FF, CR, space) and the whitespace outside ASCII,
\* which int() first replaces by a space
Whitespace ==
    {9, 10, 11, 12, 13, 32, 133, 160, 5760} \cup (8192..8202)
    \cup {8232, 8233, 8239, 8287, 12288}

Nd == UNION {z..(z + 9) : z \in DigitZeros}

IsDigit(ch) == ch \in Nd

DigitOf(ch) == ch - (CHOOSE z \in DigitZeros : ch \in z..(z + 9))

\* str(user.id)
RECURSIVE StrOf(_)
StrOf(n) == IF n < 10 THEN <<48 + n>>
            ELSE Append(StrOf(n \div 10), 48 + (n % 10))

\* the argument of int() without the whitespace at its ends
RECURSIVE Strip(_)
Strip(str) == IF str = << >> THEN str
              ELSE IF Head(str) \in Whitespace THEN Strip(Tail(str))
              ELSE IF str[Len(str)] \in Whitespace
                THEN Strip(SubSeq(str, 1, Len(str) - 1))
              ELSE str

\* the argument of int() without its sign, + or -
Unsigned(str) == IF str # << >> /\ Head(str) \in {43, 45} THEN Tail(str) ELSE str

\* digits, with single underscores between digits
IsNumeral(str) ==
    /\ str # << >>
    /\ IsDigit(str[1]) /\ IsDigit(str[Len(str)])
    /\ \A k \in 1..Len(str) :
          \/ IsDigit(str[k])
          \/ str[k] = 95 /\ IsDigit(str[k - 1]) /\ IsDigit(str[k + 1])

\* int(sub) raises ValueError unless sub, stripped of surrounding
\* whitespace, is an optional sign and a numeral of at most 4300 digits
\* (CPython's default limit of integer string conversion, which the
\* application does not change; underscores do not count)
IsInt(str) ==
    /\ IsNumeral(Unsigned(Strip(str)))
    /\ Len(SelectSeq(str, IsDigit)) <= 4300

\* the last ten decimal digits of a numeral, or all if it has fewer: its
\* underscores left out
Digits(str) ==
    LET d == SelectSeq(str, IsDigit)
        n == IF Len(d) < 10 THEN Len(d) ELSE 10
    IN  [k \in 1..n |-> DigitOf(d[Len(d) - n + k])]

\* the digits before the last ten are zeros
Significant(str) ==
    LET d == SelectSeq(str, IsDigit) IN
    \A k \in 1..(Len(d) - 10) : DigitOf(d[k]) = 0

\* the number that digits d are, no greater than the number that digits e
\* are, for d and e of one length
RECURSIVE AtMost(_, _)
AtMost(d, e) == \/ d = << >>
                \/ Head(d) < Head(e)
                \/ Head(d) = Head(e) /\ AtMost(Tail(d), Tail(e))

Negative(str) == Head(Strip(str)) = 45

\* users.id is a PostgreSQL integer: the driver refuses to bind int(sub)
\* outside -2^31 .. 2^31 - 1
IsInt32(str) ==
    LET d == Digits(Unsigned(Strip(str))) IN
    /\ Significant(Unsigned(Strip(str)))
    /\ \/ Len(d) < 10
       \/ AtMost(d, IF Negative(str) THEN <<2, 1, 4, 7, 4, 8, 3, 6, 4, 8>>
                    ELSE <<2, 1, 4, 7, 4, 8, 3, 6, 4, 7>>)

\* the digits d read as a number with the given sign
RECURSIVE ValueOf(_, _)
ValueOf(d, sign) == IF d = << >> THEN 0
                    ELSE 10 * ValueOf(SubSeq(d, 1, Len(d) - 1), sign) + sign * d[Len(d)]

\* int(sub), for a sub that int() accepts and that is within that range
IntOf(str) == ValueOf(Digits(Unsigned(Strip(str))), IF Negative(str) THEN -1 ELSE 1)
\* ============================================================ tokens
\* A token is what jwt.decode can tell about it: whether its signature was
\* made with JWT_SECRET and JWT_ALGORITHM, whether its registered claims
\* other than exp are well formed (a sub that is no string is not), its exp
\* claim in seconds, and its claims type and sub.

\* the exp claim is encoded in whole seconds: the variable now is the
\* second the clock shows
create_access_token(sub) ==
    [signature |-> "valid", claims |-> "valid",
     exp |-> now + JWT_ACCESS_TOKEN_EXPIRE_MINUTES * 60,
     type |-> "access",
     has_sub |-> TRUE, sub |-> sub]

create_refresh_token(sub) ==
    [signature |-> "valid", claims |-> "valid",
     exp |-> now + JWT_REFRESH_TOKEN_EXPIRE_DAYS * 24 * 3600,
     type |-> "refresh",
     has_sub |-> TRUE, sub |-> sub]

\* jwt.decode raises JWTError for a bad signature, for an expired token and
\* for a malformed registered claim
JWTError(token) ==
    token.signature # "valid" \/ token.claims # "valid" \/ token.exp < now

\* tokens of user u issued up to now, one for each second
AccessTokens(u) ==
    {[create_access_token(StrOf(u)) EXCEPT !.exp = @ - d] : d \in 0..now}

RefreshTokens(u) ==
    {[create_refresh_token(StrOf(u)) EXCEPT !.exp = @ - d] : d \in 0..now}

\* GET refresh_token:{user_id}: the key is made from the sub claim as a
\* string, and the keys that exist are made from str(user.id)
StoredToken(sub) ==
    IF \E k \in KeyIds : StrOf(k) = sub
      THEN redis.refresh_token[CHOOSE k \in KeyIds : StrOf(k) = sub]
      ELSE NoToken

\* the clock reaches the next second
Tick ==
    /\ now < MaxTime
    /\ now' = now + 1
    /\ UNCHANGED <<users, users_id_seq, user_profiles, device_tokens, redis, worker, req, last, calls>>

\* ================================================== get_current_user
\* the statement a route runs first once get_current_user has returned
FirstStep(route) ==
    CASE route = "logout" -> "delete"
      [] route = "register_device_token" -> "select"
      [] OTHER -> "return"

\* =================================================== rate_limit_check
\* the dependency of register and login, awaited before the handler's first
\* statement.  limit and window are parameters of the dependency, which
\* FastAPI reads from the query string (defaults 100 and 60).

\* the handler's first statement once the dependency has returned
Handler(s) ==
    [req[s] EXCEPT !.pc = IF req[s].op = "register" THEN "exists" ELSE "authenticate",
                   !.limit = 0, !.window = 0]

\* check_rate_limit: GET key and the branch taken on the value read
rate_limit_check_get(s, route, data, limit, window) ==
    /\ CanStart(s)
    /\ calls' = calls + 1
    /\ UNCHANGED <<users, users_id_seq, user_profiles, device_tokens, redis, worker, now>>
    /\ Continue(s, [Idle EXCEPT
                      !.op = route, !.data = data, !.limit = limit, !.window = window,
                      !.pc = IF redis.rate_limit.count = 0 THEN "setex"
                             ELSE IF redis.rate_limit.count >= limit THEN "ttl"
                             ELSE "incr"])

\* SETEX key window 1, which Redis refuses for a window that is not
\* positive: check_rate_limit logs the error and allows the request
rate_limit_check_setex(s) ==
    /\ req[s].pc = "setex"
    /\ redis' = IF req[s].window <= 0 THEN redis
                ELSE [redis EXCEPT !.rate_limit = [count |-> 1, ttl |-> TRUE]]
    /\ Continue(s, Handler(s))
    /\ UNCHANGED <<users, users_id_seq, user_profiles, device_tokens, worker, now, calls>>

\* TTL key, whose result is not used; check_rate_limit returns (False, 0)
\* and rate_limit_check raises HTTPException(429) inside its own try block,
\* whose except Exception clause returns {"remaining": limit}: the handler
\* runs
rate_limit_check_ttl(s) ==
    /\ req[s].pc = "ttl"
    /\ Continue(s, Handler(s))
    /\ UNCHANGED <<users, users_id_seq, user_profiles, device_tokens, redis, worker, now, calls>>

\* INCR key: a key that has expired since the GET is created without expiry
rate_limit_check_incr(s) ==
    /\ req[s].pc = "incr"
    /\ redis' = [redis EXCEPT !.rate_limit.count = @ + 1]
    /\ Continue(s, Handler(s))
    /\ UNCHANGED <<users, users_id_seq, user_profiles, device_tokens, worker, now, calls>>

\* the window of the key ends
rate_limit_expire ==
    /\ redis.rate_limit.count > 0 /\ redis.rate_limit.ttl
    /\ redis' = [redis EXCEPT !.rate_limit = NoKeys.rate_limit]
    /\ UNCHANGED <<users, users_id_seq, user_profiles, device_tokens, worker, now, req, last, calls>>

\* get_current_user without its test of the type claim
get_current_user_decode_any_type(s, route, credentials, cookie, data) ==
    /\ CanStart(s)
    /\ calls' = calls + 1
    /\ UNCHANGED <<users, users_id_seq, user_profiles, device_tokens, redis, worker, now>>
    /\ LET token == IF credentials # NoToken THEN credentials ELSE cookie IN
       IF token = NoToken
         THEN Respond(s, route, 0, "UnauthorizedError: Authorization header missing")
       ELSE IF JWTError(token)
         THEN Respond(s, route, 0, "UnauthorizedError: Invalid token")
       ELSE IF ~token.has_sub
         THEN Respond(s, route, 0, "UnauthorizedError: Invalid token: missing subject")
       ELSE IF ~IsInt(token.sub)
         THEN Respond(s, route, 0, "UnauthorizedError: Invalid token")
       ELSE Continue(s, [Idle EXCEPT !.op = route, !.pc = "user", !.data = data,
                                     !.token = token])

\* the dependency of the routes declared with Depends(get_current_user):
\* the token of the request, jwt.decode, the tests of the claims, int(sub)
get_current_user_decode(s, route, credentials, cookie, data) ==
    /\ CanStart(s)
    /\ calls' = calls + 1
    /\ UNCHANGED <<users, users_id_seq, user_profiles, device_tokens, redis, worker, now>>
    /\ LET token == IF credentials # NoToken THEN credentials ELSE cookie IN
       IF token = NoToken
         THEN Respond(s, route, 0, "UnauthorizedError: Authorization header missing")
       ELSE IF JWTError(token)
         THEN Respond(s, route, 0, "UnauthorizedError: Invalid token")
       ELSE IF token.type # "access"
         THEN Respond(s, route, 0, "UnauthorizedError: Invalid token type")
       ELSE IF ~token.has_sub
         THEN Respond(s, route, 0, "UnauthorizedError: Invalid token: missing subject")
       ELSE IF ~IsInt(token.sub)
         THEN Respond(s, route, 0, "UnauthorizedError: Invalid token")
       ELSE Continue(s, [Idle EXCEPT !.op = route, !.pc = "user", !.data = data,
                                     !.token = token])

\* the SELECT of the user and the tests of the row; get_current_user_info
\* (GET /auth/me) returns the user it is given
get_current_user_user(s) ==
    /\ req[s].pc = "user"
    /\ UNCHANGED <<users, users_id_seq, user_profiles, device_tokens, redis, worker, now, calls>>
    /\ LET user_id == IntOf(req[s].token.sub) IN
       IF ~IsInt32(req[s].token.sub)
         THEN Respond(s, req[s].op, 0, "DBAPIError")
       ELSE IF user_id \notin DOMAIN users
         THEN Respond(s, req[s].op, user_id, "UnauthorizedError: User not found")
       ELSE IF ~users[user_id].is_active
         THEN Respond(s, req[s].op, user_id, "UnauthorizedError: User account is disabled")
       ELSE IF FirstStep(req[s].op) = "return"
         THEN Respond(s, req[s].op, user_id, "ok")
       ELSE Continue(s, [req[s] EXCEPT !.pc = FirstStep(req[s].op), !.user = user_id])

\* ======================================= routes that load a user by id
\* current_user of these routes is the function checker.

\* POST /admin/users/{user_id}/suspend: the SELECT, then user.id is compared
\* with current_user.id, which the function does not have
suspend_user(s, user_id) ==
    /\ CanStart(s)
    /\ calls' = calls + 1
    /\ UNCHANGED <<users, users_id_seq, user_profiles, device_tokens, redis, worker, now>>
    /\ IF user_id \notin DOMAIN users
         THEN Respond(s, "suspend_user", user_id, "NotFoundError")
       ELSE Respond(s, "suspend_user", user_id, "AttributeError: id")

\* DELETE /users/{user_id}: the SELECT, then the same comparison
delete_user(s, user_id) ==
    /\ CanStart(s)
    /\ calls' = calls + 1
    /\ UNCHANGED <<users, users_id_seq, user_profiles, device_tokens, redis, worker, now>>
    /\ IF user_id \notin DOMAIN users
         THEN Respond(s, "delete_user", user_id, "NotFoundError")
       ELSE Respond(s, "delete_user", user_id, "AttributeError: id")

\* bodies of PUT /users/{user_id}, as user_data.dict(exclude_unset=True)
\* holds them: is_active false, true, null or left out; email an address,
\* null or left out; and whether role, status or is_verified is null (the
\* other values of these three are stored in columns nothing here reads)
UserUpdates ==
    {[NoData EXCEPT !.is_active = a, !.email = UNSET] : a \in {"no", "yes", NULL, UNSET}}
    \cup {[NoData EXCEPT !.is_active = a, !.email = e] :
             a \in {"no", UNSET}, e \in Emails \cup {NULL}}
    \cup {[NoData EXCEPT !.is_active = UNSET, !.email = UNSET, !.null_column = TRUE]}

\* PUT /users/{user_id}: the SELECT of the user and the assignment of the
\* body's fields; current_user is not read before the commit
update_user_load(s, user_id, user_data) ==
    /\ CanStart(s)
    /\ calls' = calls + 1
    /\ UNCHANGED <<users, users_id_seq, user_profiles, device_tokens, redis, worker, now>>
    /\ IF user_id \notin DOMAIN users
         THEN Respond(s, "update_user", user_id, "NotFoundError")
       ELSE Continue(s, [Idle EXCEPT !.op = "update_user", !.pc = "commit",
                                     !.target = user_id,
                                     !.data = user_data,
                                     !.account = Loaded(user_id)])

\* the flush and the COMMIT: one UPDATE of the attributes whose assigned
\* value differs from the loaded one.  The columns are NOT NULL, so an
\* UPDATE that sets one to null fails; ix_users_email refuses an email that
\* another row holds, and behind an uncommitted row with that email the
\* UPDATE waits.  A failed UPDATE rolls the transaction back.
update_user_commit(s) ==
    /\ req[s].op = "update_user" /\ req[s].pc = "commit"
    /\ UNCHANGED <<users_id_seq, user_profiles, device_tokens, redis, worker, now, calls>>
    /\ LET k == req[s].target
           user_data == req[s].data
           email == IF user_data.email = UNSET THEN users[k].email
                    ELSE Flush(req[s].account.email, user_data.email, users[k].email)
           is_active == IF user_data.is_active = UNSET THEN users[k].is_active
                        ELSE Flush(req[s].account.is_active, user_data.is_active = "yes",
                                   users[k].is_active)
       IN
       IF user_data.is_active = NULL \/ user_data.email = NULL \/ user_data.null_column
         THEN /\ users' = users
              /\ Respond(s, "update_user", k, "IntegrityError")
       ELSE IF email # users[k].email /\ Blocked(s, email, NULL)
         THEN /\ users' = users
              /\ Continue(s, [req[s] EXCEPT !.pc = "wait"])
       ELSE IF email # users[k].email /\ UsersWithEmail(email) # {}
         THEN /\ users' = users
              /\ Respond(s, "update_user", k, "IntegrityError")
       ELSE /\ users' = [users EXCEPT ![k].email = email, ![k].is_active = is_active]
            /\ Continue(s, [req[s] EXCEPT !.pc = "refresh"])

\* the UPDATE that waited: the row it waited for has been committed
update_user_commit_wait(s) ==
    /\ req[s].op = "update_user" /\ req[s].pc = "wait"
    /\ ~Blocked(s, req[s].data.email, NULL)
    /\ Respond(s, "update_user", req[s].target, "IntegrityError")
    /\ UNCHANGED <<users, users_id_seq, user_profiles, device_tokens, redis, worker, now, calls>>

\* db.refresh(user), then the log line reads current_user.email, which the
\* function does not have
update_user_refresh(s) ==
    /\ req[s].op = "update_user" /\ req[s].pc = "refresh"
    /\ UNCHANGED <<users, users_id_seq, user_profiles, device_tokens, redis, worker, now, calls>>
    /\ Respond(s, "update_user", req[s].target, "AttributeError: email")

\* ============================================================ register
\* bodies of POST /auth/register
UserCreates ==
    {[NoData EXCEPT !.email = email, !.has_password = p, !.has_google_sub = g] :
       email \in Emails, p \in BOOLEAN, g \in BOOLEAN}

\* POST /auth/register, once rate_limit_check has returned: the SELECT by
\* email and the checks of the body (a password, or a google_sub, is
\* required)
register_exists(s) ==
    /\ req[s].op = "register" /\ req[s].pc = "exists"
    /\ UNCHANGED <<users, users_id_seq, user_profiles, device_tokens, redis, worker, now, calls>>
    /\ IF UsersWithEmail(req[s].data.email) # {}
         THEN Respond(s, "register", 0, "ConflictError")
       ELSE IF ~req[s].data.has_password /\ ~req[s].data.has_google_sub
         THEN Respond(s, "register", 0, "ValidationError")
       ELSE Continue(s, [req[s] EXCEPT !.pc = "commit"])

\* db.commit(): the INSERT and the COMMIT.  The sequence hands out an id
\* whether or not the row is stored; ix_users_email refuses a second row
\* with the same email; behind an uncommitted row with that email the INSERT
\* waits.  The body's google_sub is not stored.
register_commit(s) ==
    /\ req[s].op = "register" /\ req[s].pc = "commit"
    /\ users_id_seq < MaxUserId
    /\ users_id_seq' = users_id_seq + 1
    /\ UNCHANGED <<user_profiles, device_tokens, redis, worker, now, calls>>
    /\ LET row == [email |-> req[s].data.email,
                   has_password |-> req[s].data.has_password,
                   google_sub |-> NULL, is_active |-> TRUE]
       IN
       IF Blocked(s, row.email, NULL)
         THEN /\ users' = users
              /\ Continue(s, [req[s] EXCEPT !.pc = "wait"])
       ELSE IF Duplicate(row.email, NULL)
         THEN /\ users' = users
              /\ Respond(s, "register", 0, "IntegrityError")
       ELSE /\ users' = Insert(users_id_seq', row)
            /\ Continue(s, [req[s] EXCEPT !.pc = "refresh", !.target = users_id_seq'])

\* the INSERT that waited: the row it waited for has been committed
register_commit_wait(s) ==
    /\ req[s].op = "register" /\ req[s].pc = "wait"
    /\ ~Blocked(s, req[s].data.email, NULL)
    /\ Respond(s, "register", 0, "IntegrityError")
    /\ UNCHANGED <<users, users_id_seq, user_profiles, device_tokens, redis, worker, now, calls>>

\* db.refresh(user); the handler returns the user
register_refresh(s) ==
    /\ req[s].op = "register" /\ req[s].pc = "refresh"
    /\ Respond(s, "register", req[s].target, "ok")
    /\ UNCHANGED <<users, users_id_seq, user_profiles, device_tokens, redis, worker, now, calls>>

\* ========================================================= google_auth
\* POST /auth/google, get_or_create_google_user: the verification of the id
\* token and the SELECT of the user by email or google_sub
google_auth_select(s, id_info) ==
    /\ CanStart(s)
    /\ calls' = calls + 1
    /\ UNCHANGED <<users, users_id_seq, user_profiles, device_tokens, redis, worker, now>>
    /\ LET found == UsersWithEmail(id_info.email) \cup UsersWithGoogleSub(id_info.sub) IN
       IF id_info.error
         THEN Respond(s, "google_auth", 0, "UnauthorizedError: Invalid Google token")
       ELSE IF id_info.email = NULL
         THEN Respond(s, "google_auth", 0, "UnauthorizedError: Email not provided by Google")
       ELSE IF Cardinality(found) > 1
         THEN Respond(s, "google_auth", 0, "MultipleResultsFound")
       ELSE IF found = {}
         THEN Continue(s, [Idle EXCEPT !.op = "google_auth", !.pc = "flush",
                                       !.data.email = id_info.email,
                                       !.data.google_sub = id_info.sub])
       ELSE LET k == CHOOSE k \in found : TRUE IN
            Continue(s, [Idle EXCEPT !.op = "google_auth", !.pc = "commit",
                                     !.target = k,
                                     !.data.email = id_info.email,
                                     !.data.google_sub = id_info.sub,
                                     !.account = Loaded(k)])

\* the user exists: google_sub is assigned if the loaded row has none, and
\* last_login_at; db.commit().  ix_users_google_sub refuses a google_sub
\* that another row holds; behind an uncommitted row with it the UPDATE waits
google_auth_commit(s) ==
    /\ req[s].op = "google_auth" /\ req[s].pc = "commit"
    /\ UNCHANGED <<users_id_seq, user_profiles, device_tokens, redis, worker, now, calls>>
    /\ LET k == req[s].target
           assigned == IF req[s].account.google_sub = NULL THEN req[s].data.google_sub
                       ELSE req[s].account.google_sub
           written == Flush(req[s].account.google_sub, assigned, users[k].google_sub)
       IN
       /\ written = users[k].google_sub \/ ~Blocked(s, NULL, written)
       /\ IF written # users[k].google_sub /\ UsersWithGoogleSub(written) # {}
            THEN /\ users' = users
                 /\ Respond(s, "google_auth", k, "IntegrityError")
          ELSE /\ users' = [users EXCEPT ![k].google_sub = written]
               /\ Continue(s, [req[s] EXCEPT !.pc = "refresh"])

\* the user does not exist: db.flush() sends the INSERT of the user.  The row
\* stays uncommitted, under the id the sequence handed out
google_auth_flush(s) ==
    /\ req[s].op = "google_auth" /\ req[s].pc = "flush"
    /\ users_id_seq < MaxUserId
    /\ users_id_seq' = users_id_seq + 1
    /\ UNCHANGED <<users, user_profiles, device_tokens, redis, worker, now, calls>>
    /\ LET row == [id |-> users_id_seq', email |-> req[s].data.email,
                   has_password |-> FALSE,
                   google_sub |-> req[s].data.google_sub, is_active |-> TRUE]
       IN
       IF Blocked(s, row.email, row.google_sub)
         THEN Continue(s, [req[s] EXCEPT !.pc = "wait"])
       ELSE IF Duplicate(row.email, row.google_sub)
         THEN Respond(s, "google_auth", 0, "IntegrityError")
       ELSE Continue(s, [req[s] EXCEPT !.pc = "commit_new", !.target = row.id,
                                       !.account = row])

\* the INSERT that waited: the row it waited for has been committed
google_auth_flush_wait(s) ==
    /\ req[s].op = "google_auth" /\ req[s].pc = "wait"
    /\ ~Blocked(s, req[s].data.email, req[s].data.google_sub)
    /\ Respond(s, "google_auth", 0, "IntegrityError")
    /\ UNCHANGED <<users, users_id_seq, user_profiles, device_tokens, redis, worker, now, calls>>

\* the INSERT of the profile and the COMMIT of both rows
google_auth_commit_new(s) ==
    /\ req[s].op = "google_auth" /\ req[s].pc = "commit_new"
    /\ users' = Insert(req[s].target,
                       [email |-> req[s].account.email,
                        has_password |-> FALSE,
                        google_sub |-> req[s].account.google_sub,
                        is_active |-> TRUE])
    /\ user_profiles' = user_profiles \cup {req[s].target}
    /\ Continue(s, [req[s] EXCEPT !.pc = "refresh"])
    /\ UNCHANGED <<users_id_seq, device_tokens, redis, worker, now, calls>>

\* db.refresh(user); google_auth creates the tokens for the user it is
\* given, whose is_active it does not read
google_auth_refresh(s) ==
    /\ req[s].op = "google_auth" /\ req[s].pc = "refresh"
    /\ Continue(s, [req[s] EXCEPT !.pc = "set", !.user = req[s].target,
                                  !.issued = create_refresh_token(StrOf(req[s].target))])
    /\ UNCHANGED <<users, users_id_seq, user_profiles, device_tokens, redis, worker, now, calls>>

\* SET refresh_token:{user.id}
google_auth_set(s) ==
    /\ req[s].op = "google_auth" /\ req[s].pc = "set"
    /\ redis' = [redis EXCEPT !.refresh_token[req[s].user] = req[s].issued]
    /\ Respond(s, "google_auth", req[s].user, "ok")
    /\ UNCHANGED <<users, users_id_seq, user_profiles, device_tokens, worker, now, calls>>

\* =============================================================== login
\* bodies of POST /auth/login: the email, and whether the password is the
\* one of the user with that email
LoginRequests ==
    {[NoData EXCEPT !.email = email, !.password_ok = p] : email \in Emails, p \in BOOLEAN}

\* POST /auth/login, once rate_limit_check has returned; authenticate_user:
\* the SELECT by email and the checks of the password and of is_active
login_authenticate(s) ==
    /\ req[s].op = "login" /\ req[s].pc = "authenticate"
    /\ UNCHANGED <<users, users_id_seq, user_profiles, device_tokens, redis, worker, now, calls>>
    /\ IF UsersWithEmail(req[s].data.email) = {}
         THEN Respond(s, "login", 0, "UnauthorizedError: Invalid email or password")
       ELSE LET k == CHOOSE k \in UsersWithEmail(req[s].data.email) : TRUE IN
            IF ~users[k].has_password \/ ~req[s].data.password_ok
              THEN Respond(s, "login", k, "UnauthorizedError: Invalid email or password")
            ELSE IF ~users[k].is_active
              THEN Respond(s, "login", k, "UnauthorizedError: Account is disabled")
            ELSE Continue(s, [req[s] EXCEPT !.pc = "commit", !.user = k, !.target = k])

\* the COMMIT of last_login_at, then the tokens are created
login_commit(s) ==
    /\ req[s].op = "login" /\ req[s].pc = "commit"
    /\ Continue(s, [req[s] EXCEPT !.pc = "set",
                                  !.issued = create_refresh_token(StrOf(req[s].user))])
    /\ UNCHANGED <<users, users_id_seq, user_profiles, device_tokens, redis, worker, now, calls>>

\* SET refresh_token:{user.id}
login_set(s) ==
    /\ req[s].op = "login" /\ req[s].pc = "set"
    /\ redis' = [redis EXCEPT !.refresh_token[req[s].user] = req[s].issued]
    /\ Respond(s, "login", req[s].user, "ok")
    /\ UNCHANGED <<users, users_id_seq, user_profiles, device_tokens, worker, now, calls>>

\* ======================================================= refresh_token
\* POST /auth/refresh: jwt.decode, the checks of the claims, GET
\* refresh_token:{sub} and the comparison of the presented token with the
\* one stored
refresh_token_get(s, token) ==
    /\ CanStart(s)
    /\ calls' = calls + 1
    /\ UNCHANGED <<users, users_id_seq, user_profiles, device_tokens, redis, worker, now>>
    /\ IF JWTError(token)
         THEN Respond(s, "refresh_token", 0, "UnauthorizedError: Invalid refresh token")
       ELSE IF token.type # "refresh"
         THEN Respond(s, "refresh_token", 0, "UnauthorizedError: Invalid token type")
       ELSE IF ~token.has_sub \/ token.sub = << >>
         THEN Respond(s, "refresh_token", 0, "UnauthorizedError: Invalid token")
       ELSE IF StoredToken(token.sub) = NoToken \/ StoredToken(token.sub) # token
         THEN Respond(s, "refresh_token", 0, "UnauthorizedError: Invalid refresh token")
       ELSE Continue(s, [Idle EXCEPT !.op = "refresh_token", !.pc = "user",
                                     !.target = IntOf(token.sub), !.token = token])

\* the SELECT of the user, then the new tokens are created
refresh_token_user(s) ==
    /\ req[s].op = "refresh_token" /\ req[s].pc = "user"
    /\ UNCHANGED <<users, users_id_seq, user_profiles, device_tokens, redis, worker, now, calls>>
    /\ LET user_id == req[s].target IN
       IF user_id \notin DOMAIN users \/ ~users[user_id].is_active
         THEN Respond(s, "refresh_token", user_id,
                      "UnauthorizedError: User not found or disabled")
       ELSE Continue(s, [req[s] EXCEPT !.pc = "delete", !.user = user_id,
                                       !.issued = create_refresh_token(StrOf(user_id))])

\* DEL refresh_token:{user_id}
refresh_token_delete(s) ==
    /\ req[s].op = "refresh_token" /\ req[s].pc = "delete"
    /\ redis' = [redis EXCEPT !.refresh_token[req[s].target] = NoToken]
    /\ Continue(s, [req[s] EXCEPT !.pc = "set"])
    /\ UNCHANGED <<users, users_id_seq, user_profiles, device_tokens, worker, now, calls>>

\* SET refresh_token:{user_id}
refresh_token_set(s) ==
    /\ req[s].op = "refresh_token" /\ req[s].pc = "set"
    /\ redis' = [redis EXCEPT !.refresh_token[req[s].target] = req[s].issued]
    /\ Respond(s, "refresh_token", req[s].target, "ok")
    /\ UNCHANGED <<users, users_id_seq, user_profiles, device_tokens, worker, now, calls>>

\* ============================================================== logout
\* POST /auth/logout, once get_current_user has returned the user:
\* DEL refresh_token:{current_user.id}
logout_delete(s) ==
    /\ req[s].op = "logout" /\ req[s].pc = "delete"
    /\ redis' = [redis EXCEPT !.refresh_token[req[s].user] = NoToken]
    /\ Respond(s, "logout", req[s].user, "ok")
    /\ UNCHANGED <<users, users_id_seq, user_profiles, device_tokens, worker, now, calls>>

\* ================================================ register_device_token
\* POST /auth/device-token, once get_current_user has returned the user:
\* the SELECT of the device token by fcm_token
register_device_token_select(s) ==
    /\ req[s].op = "register_device_token" /\ req[s].pc = "select"
    /\ Continue(s, [req[s] EXCEPT
                      !.pc = "commit",
                      !.existing = req[s].data.fcm_token \in DOMAIN device_tokens,
                      !.target = IF req[s].data.fcm_token \in DOMAIN device_tokens
                                   THEN device_tokens[req[s].data.fcm_token].user_id
                                   ELSE 0])
    /\ UNCHANGED <<users, users_id_seq, user_profiles, device_tokens, redis, worker, now, calls>>

\* db.commit(): the UPDATE of the row found (user_id is written when it
\* differs from the loaded one), or the INSERT of a new row, which the
\* unique constraint on fcm_token refuses if the token has a row by now
register_device_token_commit(s) ==
    /\ req[s].op = "register_device_token" /\ req[s].pc = "commit"
    /\ UNCHANGED <<users, users_id_seq, user_profiles, redis, worker, now, calls>>
    /\ LET fcm_token == req[s].data.fcm_token IN
       IF req[s].existing
         THEN /\ device_tokens' =
                   [device_tokens EXCEPT
                      ![fcm_token].user_id = Flush(req[s].target, req[s].user, @),
                      ![fcm_token].is_active = TRUE]
              /\ Continue(s, [req[s] EXCEPT !.pc = "refresh"])
       ELSE IF fcm_token \in DOMAIN device_tokens
         THEN /\ device_tokens' = device_tokens
              /\ Respond(s, "register_device_token", req[s].user, "IntegrityError")
       ELSE /\ device_tokens' =
                 [t \in DOMAIN device_tokens \cup {fcm_token} |->
                    IF t = fcm_token THEN [user_id |-> req[s].user, is_active |-> TRUE]
                    ELSE device_tokens[t]]
            /\ Continue(s, [req[s] EXCEPT !.pc = "refresh"])

\* db.refresh(device_token); the handler returns the row
register_device_token_refresh(s) ==
    /\ req[s].op = "register_device_token" /\ req[s].pc = "refresh"
    /\ Respond(s, "register_device_token", req[s].user, "ok")
    /\ UNCHANGED <<users, users_id_seq, user_profiles, device_tokens, redis, worker, now, calls>>

\* ============================================================= worker
\* jobs that clients have put on the queues: for users 1 and 2, and one that
\* is not a JSON object with the keys the worker reads
ClientJobs == {[valid |-> TRUE, user_id |-> 1, token |-> 0],
               [valid |-> TRUE, user_id |-> 2, token |-> 0],
               [valid |-> FALSE, user_id |-> 0, token |-> 0]}

Queues == UNION {[1..n -> ClientJobs] : n \in 0..MaxQueue}

\* process_notifications: LPOP notification_queue, json.loads and the reads
\* of the job's keys; an exception is logged
process_notifications_lpop ==
    /\ worker.pc = "sleep"
    /\ IF redis.notification_queue = << >>
         THEN /\ worker' = [worker EXCEPT !.pc = "emails"]
              /\ redis' = redis
       ELSE IF ~Head(redis.notification_queue).valid
         THEN /\ worker' = [worker EXCEPT !.pc = "emails"]
              /\ redis' = [redis EXCEPT !.notification_queue = Tail(@)]
       ELSE /\ worker' = [worker EXCEPT !.pc = "notification",
                                        !.job = Head(redis.notification_queue)]
            /\ redis' = [redis EXCEPT !.notification_queue = Tail(@)]
    /\ UNCHANGED <<users, users_id_seq, user_profiles, device_tokens, now, req, last, calls>>

\* send_push_notification: the SELECT of the user's active device tokens;
\* without any it returns
process_notifications_select ==
    /\ worker.pc = "notification"
    /\ LET found == {t \in DOMAIN device_tokens :
                       /\ device_tokens[t].user_id = worker.job.user_id
                       /\ device_tokens[t].is_active}
       IN  worker' = IF found = {} THEN [Asleep EXCEPT !.pc = "emails"]
                     ELSE [worker EXCEPT !.pc = "rpush", !.device_tokens = found]
    /\ UNCHANGED <<users, users_id_seq, user_profiles, device_tokens, redis, now, req, last, calls>>

\* RPUSH notification_queue, for the next device token of the result (the
\* query has no ORDER BY)
process_notifications_rpush ==
    /\ worker.pc = "rpush"
    /\ Len(redis.notification_queue) <= MaxQueue
    /\ \E t \in worker.device_tokens :
         /\ redis' = [redis EXCEPT !.notification_queue =
                        Append(@, [worker.job EXCEPT !.token = t])]
         /\ worker' = IF worker.device_tokens = {t} THEN [Asleep EXCEPT !.pc = "emails"]
                      ELSE [worker EXCEPT !.device_tokens = @ \ {t}]
    /\ UNCHANGED <<users, users_id_seq, user_profiles, device_tokens, now, req, last, calls>>

\* process_emails: LPOP email_queue, json.loads and the reads of the job's
\* keys; an exception is logged
process_emails_lpop ==
    /\ worker.pc = "emails"
    /\ IF redis.email_queue = << >>
         THEN /\ worker' = [worker EXCEPT !.pc = "sleep"]
              /\ redis' = redis
       ELSE IF ~Head(redis.email_queue).valid
         THEN /\ worker' = [worker EXCEPT !.pc = "sleep"]
              /\ redis' = [redis EXCEPT !.email_queue = Tail(@)]
       ELSE /\ worker' = [worker EXCEPT !.pc = "email",
                                        !.job = Head(redis.email_queue)]
            /\ redis' = [redis EXCEPT !.email_queue = Tail(@)]
    /\ UNCHANGED <<users, users_id_seq, user_profiles, device_tokens, now, req, last, calls>>

\* send_email: RPUSH email_queue
process_emails_send ==
    /\ worker.pc = "email"
    /\ redis' = [redis EXCEPT !.email_queue = Append(@, worker.job)]
    /\ worker' = Asleep
    /\ UNCHANGED <<users, users_id_seq, user_profiles, device_tokens, now, req, last, calls>>

\* ======================================================= specifications
\* The rows register has inserted for n requests with a password, for the
\* first n emails: ids 1..n, no google_sub, is_active true.
Registered(n) ==
    [k \in 1..n |-> [email |-> IF k = 1 THEN "a@example.com" ELSE "b@example.com",
                     has_password |-> TRUE, google_sub |-> NULL, is_active |-> TRUE]]

\* ---- register -----------------------------------------------------
\* the bodies of update_user that set an email
EmailUpdates == {user_data \in UserUpdates : user_data.email \in Emails}

\* the program has just started: no user
InitRegister ==
    /\ users = << >>
    /\ users_id_seq = 0
    /\ user_profiles = {}
    /\ device_tokens = << >>
    /\ redis = NoKeys
    /\ worker = Asleep
    /\ now = 0
    /\ req = [s \in Slots |-> Idle]
    /\ last = NoResponse
    /\ calls = 0

\* requests with the default limit, or with ?limit=1; the window is the
\* default, longer than a behaviour lasts
NextRegister ==
    \/ \E s \in Slots, user_data \in UserCreates, limit \in {1, Limit} :
          rate_limit_check_get(s, "register", user_data, limit, Window)
    \/ \E s \in Slots : rate_limit_check_setex(s)
    \/ \E s \in Slots : rate_limit_check_ttl(s)
    \/ \E s \in Slots : rate_limit_check_incr(s)
    \/ \E s \in Slots : register_exists(s)
    \/ \E s \in Slots : register_commit(s)
    \/ \E s \in Slots : register_commit_wait(s)
    \/ \E s \in Slots : register_refresh(s)
    \/ \E s \in Slots, id_info \in GoogleTokens : google_auth_select(s, id_info)
    \/ \E s \in Slots : google_auth_commit(s)
    \/ \E s \in Slots : google_auth_flush(s)
    \/ \E s \in Slots : google_auth_flush_wait(s)
    \/ \E s \in Slots : google_auth_commit_new(s)
    \/ \E s \in Slots : google_auth_refresh(s)
    \/ \E s \in Slots : google_auth_set(s)
    \/ \E s \in Slots, user_id \in {1, 2}, user_data \in EmailUpdates :
          update_user_load(s, user_id, user_data)
    \/ \E s \in Slots : update_user_commit(s)
    \/ \E s \in Slots : update_user_commit_wait(s)
    \/ \E s \in Slots : update_user_refresh(s)

SpecRegister == InitRegister /\ [][NextRegister]_vars

\* ---- authentication -----------------------------------------------
\* tokens a client may present: the tokens that login and google_auth issue
\* for the ids 1, 2 and 12 (user 1 has registered, google_auth may create
\* user 2, and no user gets id 12); the same after their expiry; signed
\* with another key; with a sub that is no string; and validly signed tokens
\* of other shapes, among them subs that int() accepts although str(user.id)
\* never produces them
IssuedTokens ==
    UNION {{create_access_token(StrOf(u)), create_refresh_token(StrOf(u))} :
             u \in {1, 2, 12}}

\* "x", "", " 2", "2 ", "+2", "-2", "02", "1_2", "2_", "_2", "1__2", "+ 2",
\* ARABIC-INDIC DIGIT TWO, FULLWIDTH DIGIT ONE and DEVANAGARI DIGIT TWO,
\* EM SPACE "2", "2" IDEOGRAPHIC SPACE, INFORMATION SEPARATOR FOUR "2",
\* SUPERSCRIPT TWO, "2147483648"
Subs ==
    {<<120>>, << >>, <<32, 50>>, <<50, 32>>, <<43, 50>>, <<45, 50>>, <<48, 50>>,
     <<49, 95, 50>>, <<50, 95>>, <<95, 50>>, <<49, 95, 95, 50>>, <<43, 32, 50>>,
     <<1634>>, <<65297, 2408>>,
     <<8195, 50>>, <<50, 12288>>, <<28, 50>>,
     <<178>>, <<50, 49, 52, 55, 52, 56, 51, 54, 52, 56>>}

TokenInputs ==
    IssuedTokens
    \cup {[t EXCEPT !.exp = now - 1] : t \in {create_access_token(StrOf(2))}}
    \cup {[t EXCEPT !.signature = "invalid"] : t \in {create_access_token(StrOf(2))}}
    \cup {[t EXCEPT !.claims = "invalid"] : t \in {create_access_token(StrOf(2))}}
    \cup {create_access_token(sub) : sub \in Subs}
    \cup {[create_access_token(StrOf(2)) EXCEPT !.type = "none"],
          [create_access_token(<< >>) EXCEPT !.has_sub = FALSE]}

\* a sub of 4301 digits
LongSubs == {[k \in 1..4301 |-> 49]}

\* the Authorization header of a request that may also carry the cookie
HeaderInputs == {NoToken, create_access_token(StrOf(1)), create_refresh_token(StrOf(1))}

\* the cookie access_token of a request
CookieInputs == {NoToken, create_access_token(StrOf(2)), create_refresh_token(StrOf(2))}

\* the Google id tokens of the requests of this specification and of the
\* next: of one Google account, with the email of the registered user, with
\* another or with none
SessionGoogleTokens ==
    {id_info \in GoogleTokens : id_info.error \/ id_info.sub = "g1"}

\* the bodies of update_user that set is_active alone, or the email alone
\* to the address that no user has at the start
AuthUpdates ==
    {user_data \in UserUpdates :
       \/ user_data.email = UNSET /\ ~user_data.null_column
       \/ user_data.email = "b@example.com" /\ user_data.is_active = UNSET}

\* user 1 has registered; user 2 is created by google_auth
InitAuth ==
    /\ users = Registered(1)
    /\ users_id_seq = 1
    /\ user_profiles = {}
    /\ device_tokens = << >>
    /\ redis = NoKeys
    /\ worker = Asleep
    /\ now = 0
    /\ req = [s \in Slots |-> Idle]
    /\ last = NoResponse
    /\ calls = 0

NextAuth ==
    \/ \E s \in Slots, credentials \in TokenInputs :
          get_current_user_decode(s, "get_current_user_info", credentials, NoToken, NoData)
    \/ \E s \in Slots, credentials \in HeaderInputs, cookie \in CookieInputs :
          get_current_user_decode(s, "get_current_user_info", credentials, cookie, NoData)
    \/ /\ calls = 0
       /\ \E s \in Slots, sub \in LongSubs :
             get_current_user_decode(s, "get_current_user_info",
                                     create_access_token(sub), NoToken, NoData)
    \/ \E s \in Slots : get_current_user_user(s)
    \/ \E s \in Slots, user_id \in {1, 2, 12} : suspend_user(s, user_id)
    \/ \E s \in Slots, user_id \in {1, 2, 12} : delete_user(s, user_id)
    \/ \E s \in Slots, user_id \in {1, 2, 12}, user_data \in AuthUpdates :
          update_user_load(s, user_id, user_data)
    \/ \E s \in Slots : update_user_commit(s)
    \/ \E s \in Slots : update_user_commit_wait(s)
    \/ \E s \in Slots : update_user_refresh(s)
    \/ \E s \in Slots, id_info \in SessionGoogleTokens : google_auth_select(s, id_info)
    \/ \E s \in Slots : google_auth_commit(s)
    \/ \E s \in Slots : google_auth_flush(s)
    \/ \E s \in Slots : google_auth_flush_wait(s)
    \/ \E s \in Slots : google_auth_commit_new(s)
    \/ \E s \in Slots : google_auth_refresh(s)
    \/ \E s \in Slots : google_auth_set(s)

SpecAuth == InitAuth /\ [][NextAuth]_vars

\* ---- sessions -----------------------------------------------------
\* user 1 has registered; google_auth may create user 2
InitSessions ==
    /\ users = Registered(1)
    /\ users_id_seq = 1
    /\ user_profiles = {}
    /\ device_tokens = << >>
    /\ redis = NoKeys
    /\ worker = Asleep
    /\ now = 0
    /\ req = [s \in Slots |-> Idle]
    /\ last = NoResponse
    /\ calls = 0

NextSessions ==
    \/ Tick
    \/ \E s \in Slots, login_data \in LoginRequests, limit \in {1, Limit} :
          rate_limit_check_get(s, "login", login_data, limit, Window)
    \/ \E s \in Slots : rate_limit_check_setex(s)
    \/ \E s \in Slots : rate_limit_check_ttl(s)
    \/ \E s \in Slots : rate_limit_check_incr(s)
    \/ \E s \in Slots : login_authenticate(s)
    \/ \E s \in Slots : login_commit(s)
    \/ \E s \in Slots : login_set(s)
    \/ \E s \in Slots, id_info \in SessionGoogleTokens : google_auth_select(s, id_info)
    \/ \E s \in Slots : google_auth_commit(s)
    \/ \E s \in Slots : google_auth_flush(s)
    \/ \E s \in Slots : google_auth_flush_wait(s)
    \/ \E s \in Slots : google_auth_commit_new(s)
    \/ \E s \in Slots : google_auth_refresh(s)
    \/ \E s \in Slots : google_auth_set(s)
    \/ \E s \in Slots, u \in {1, 2} :
          \E token \in RefreshTokens(u) \cup {create_access_token(StrOf(u))} :
            refresh_token_get(s, token)
    \/ \E s \in Slots : refresh_token_user(s)
    \/ \E s \in Slots : refresh_token_delete(s)
    \/ \E s \in Slots : refresh_token_set(s)
    \/ \E s \in Slots, route \in {"logout", "get_current_user_info"},
          credentials \in AccessTokens(1) \cup AccessTokens(2) \cup {NoToken},
          cookie \in AccessTokens(1) \cup {NoToken} :
          get_current_user_decode(s, route, credentials, cookie, NoData)
    \/ \E s \in Slots : get_current_user_user(s)
    \/ \E s \in Slots : logout_delete(s)
    \/ \E s \in Slots : suspend_user(s, 1)
    \/ \E s \in Slots, user_data \in UserUpdates : update_user_load(s, 1, user_data)
    \/ \E s \in Slots : update_user_commit(s)
    \/ \E s \in Slots : update_user_commit_wait(s)
    \/ \E s \in Slots : update_user_refresh(s)

SpecSessions == InitSessions /\ [][NextSessions]_vars

\* ---- rate limit ---------------------------------------------------
\* values of the query parameters limit and window
Limits == {1, Limit, 1000}
Windows == {0, Window}

\* user 1 has registered; the counter of the client's key after that many
\* requests with the default limit
InitRateLimit ==
    /\ users = Registered(1)
    /\ users_id_seq = 1
    /\ user_profiles = {}
    /\ device_tokens = << >>
    /\ redis \in {[NoKeys EXCEPT !.rate_limit = [count |-> c, ttl |-> c > 0]] :
                    c \in {0, 1, 2, Limit - 2, Limit - 1, Limit}}
    /\ worker = Asleep
    /\ now = 0
    /\ req = [s \in Slots |-> Idle]
    /\ last = NoResponse
    /\ calls = 0

NextRateLimit ==
    \/ \E s \in Slots, login_data \in LoginRequests, limit \in Limits, window \in Windows :
          rate_limit_check_get(s, "login", login_data, limit, window)
    \/ \E s \in Slots : rate_limit_check_setex(s)
    \/ \E s \in Slots : rate_limit_check_ttl(s)
    \/ \E s \in Slots : rate_limit_check_incr(s)
    \/ rate_limit_expire
    \/ \E s \in Slots : login_authenticate(s)
    \/ \E s \in Slots : login_commit(s)
    \/ \E s \in Slots : login_set(s)

SpecRateLimit == InitRateLimit /\ [][NextRateLimit]_vars

\* ---- worker -------------------------------------------------------
\* users 1 and 2 have registered; clients have put jobs on the queues
InitWorker ==
    /\ users = Registered(2)
    /\ users_id_seq = 2
    /\ user_profiles = {}
    /\ device_tokens = << >>
    /\ redis \in {[NoKeys EXCEPT !.email_queue = e, !.notification_queue = n] :
                    e \in Queues, n \in Queues}
    /\ worker = Asleep
    /\ now = 0
    /\ req = [s \in Slots |-> Idle]
    /\ last = NoResponse
    /\ calls = 0

NextWorker ==
    \/ process_notifications_lpop
    \/ process_notifications_select
    \/ process_notifications_rpush
    \/ process_emails_lpop
    \/ process_emails_send
    \/ \E s \in Slots, u \in {1, 2}, fcm_token \in FcmTokens :
          get_current_user_decode(s, "register_device_token",
                                  create_access_token(StrOf(u)), NoToken,
                                  [NoData EXCEPT !.fcm_token = fcm_token])
    \/ \E s \in Slots : get_current_user_user(s)
    \/ \E s \in Slots : register_device_token_select(s)
    \/ \E s \in Slots : register_device_token_commit(s)
    \/ \E s \in Slots : register_device_token_refresh(s)

SpecWorker == InitWorker /\ [][NextWorker]_vars

\* ============================================================== claims
\* the token get_current_user reads from a request
Presented(credentials, cookie) == IF credentials # NoToken THEN credentials ELSE cookie

\* get_current_user hands the user to the route
Returned(s) == req'[s].user # 0 \/ (req'[s] = Idle /\ last'.resp = "ok")

\* C20: get_current_user rejects every refresh token with UnauthorizedError,
\* in the Authorization header or in the cookie; it goes on to load a user,
\* and returns one, only for a validly signed, unexpired token whose type
\* claim is access; and the access token of an existing active user passes
\* the token checks and returns that user.
C20_OnlyAccessTokensAuthenticate ==
    [][/\ \A s \in Slots, credentials \in TokenInputs \cup {NoToken},
             cookie \in CookieInputs \cup {NoToken} :
            ( /\ Presented(credentials, cookie).type = "refresh"
              /\ get_current_user_decode(s, "get_current_user_info", credentials, cookie, NoData) )
            => /\ req'[s] = Idle
               /\ last'.op = "get_current_user_info"
               /\ last'.resp \in {"UnauthorizedError: Invalid token type",
                                  "UnauthorizedError: Invalid token"}
       /\ \A s \in Slots :
            (req[s] = Idle /\ req'[s].pc = "user")
            => /\ req'[s].token.signature = "valid"
               /\ req'[s].token.exp >= now
               /\ req'[s].token.type = "access"
       /\ \A s \in Slots, u \in DOMAIN users, cookie \in CookieInputs :
            get_current_user_decode(s, "get_current_user_info",
                                    create_access_token(StrOf(u)), cookie, NoData)
            => /\ req'[s].pc = "user"
               /\ req'[s].token = create_access_token(StrOf(u))
       /\ \A s \in Slots :
            get_current_user_user(s)
            => /\ Returned(s)
                  => /\ req[s].token.signature = "valid"
                     /\ req[s].token.type = "access"
                     /\ last'.target \in DOMAIN users
                     /\ users[last'.target].is_active
               /\ \A u \in DOMAIN users :
                    (req[s].token.sub = StrOf(u) /\ users[u].is_active)
                    => /\ last'.op = "get_current_user_info"
                       /\ last'.resp = "ok"
                       /\ last'.target = u]_vars

\* C20 witness: a refresh token has just been rejected for its type while
\* another request has passed the token checks with the access token of an
\* existing active user.
C20_Witness ==
    /\ last.op = "get_current_user_info"
    /\ last.resp = "UnauthorizedError: Invalid token type"
    /\ \E s \in Slots, u \in DOMAIN users :
          /\ req[s].op = "get_current_user_info" /\ req[s].pc = "user"
          /\ req[s].token = create_access_token(StrOf(u))
          /\ users[u].is_active

\* C21: no two users share an email; a register for an email that belongs to
\* a user fails with ConflictError and creates no user, whether the email is
\* found taken by the handler's query or only at its INSERT, after a
\* concurrent register for the same email has committed.
C21_DuplicateRegisterConflictError ==
    [][/\ \A a, b \in DOMAIN users' :
            a # b => users'[a].email # users'[b].email
       /\ \A s \in Slots :
            ( /\ register_exists(s)
              /\ UsersWithEmail(req[s].data.email) # {} )
            => /\ last'.op = "register" /\ last'.resp = "ConflictError"
               /\ users' = users
       /\ \A s \in Slots :
            ( /\ register_commit(s) \/ register_commit_wait(s)
              /\ UsersWithEmail(req[s].data.email) # {} )
            => /\ last'.op = "register" /\ last'.resp = "ConflictError"
               /\ users' = users]_vars

\* C24: the counter of a key, which counts the requests allowed in the
\* window, is never raised above the limit of the request that raises it,
\* and a request that finds the counter at its limit is rejected with
\* HTTP 429: its handler does not run.
C24_AtMostLimitPerWindow ==
    [][/\ \A s \in Slots :
            rate_limit_check_setex(s) \/ rate_limit_check_incr(s)
            => redis'.rate_limit.count <= req[s].limit
       /\ \A s \in Slots :
            rate_limit_check_ttl(s)
            => /\ req'[s] = Idle
               /\ last'.op = req[s].op /\ last'.resp = "HTTP 429"]_vars

\* C25: while a user's is_active flag is false, get_current_user rejects the
\* request of every token of that user, and every refresh_token call for
\* that user fails and stores no token, whenever the tokens were issued and
\* whenever the call began.
C25_InactiveUserRejected ==
    [][/\ \A s \in Slots, u \in DOMAIN users :
            ( /\ get_current_user_user(s)
              /\ req[s].token.sub = StrOf(u)
              /\ ~users[u].is_active )
            => /\ last'.op = req[s].op
               /\ last'.resp = "UnauthorizedError: User account is disabled"
               /\ req'[s] = Idle
       /\ \A s \in Slots :
            ( /\ refresh_token_user(s)
              /\ req[s].target \in DOMAIN users
              /\ ~users[req[s].target].is_active )
            => /\ last'.op = "refresh_token"
               /\ last'.resp = "UnauthorizedError: User not found or disabled"
               /\ req'[s] = Idle
               /\ redis' = redis
       /\ \A s \in Slots :
            ( /\ refresh_token_set(s)
              /\ ~users[req[s].target].is_active )
            => /\ last'.resp # "ok"
               /\ redis' = redis]_vars

\* C27: a refresh token is redeemed at most once: when refresh_token accepts
\* a presented token no other call is redeeming the same token, and when a
\* call succeeds the token it stores differs from the one it redeemed, so the
\* redeemed token is not accepted again.
C27_RefreshTokenRedeemedOnce ==
    [][/\ \A s \in Slots, u \in DOMAIN users :
            \A token \in RefreshTokens(u) :
              (refresh_token_get(s, token) /\ req'[s].pc = "user" /\ users[u].is_active)
              => \A t \in Slots :
                   t # s => ~(req[t].op = "refresh_token" /\ req[t].token = token)
       /\ \A s \in Slots :
            refresh_token_set(s) => redis'.refresh_token[req[s].target] # req[s].token]_vars

\* C28: right after a logout of user u has succeeded, and before any login
\* of u, no refresh_token call for u succeeds.
C28_NoRefreshAfterLogout ==
    [][\A s \in Slots :
         ( /\ last.op = "logout" /\ last.resp = "ok"
           /\ req[s].op = "refresh_token" /\ req[s].target = last.target
           /\ refresh_token_set(s) )
         => last'.resp # "ok"]_vars

\* C30: handling a popped job puts nothing on a queue: the queues only
\* shrink while the worker runs, and a job that has been handled leaves the
\* worker at its next step.
C30_PoppedJobNotRequeued ==
    [][/\ process_notifications_select \/ process_notifications_rpush
            => redis'.notification_queue = redis.notification_queue
       /\ process_emails_send
            => /\ redis'.email_queue = redis.email_queue
               /\ worker'.pc = "sleep"]_vars

====
